---- MODULE Spec2Model ----
(***************************************************************************)
(* The contact store of contacts-app-rs (src/src/model.rs): the Contact    *)
(* entity and its validation, the ContactStore (a HashMap keyed by id),    *)
(* the MemContactRepo operations all/search/save/find/delete, and the      *)
(* JSON snapshot written by save_db and read back by from_path.            *)
(*                                                                         *)
(* Option<T>    : None is <<>>, Some(x) is <<x>>.                          *)
(* String       : a sequence of one-character strings ("" is <<>>).        *)
(* HashMap<K,V> : a sequence of [key, value] entries with distinct keys,   *)
(*                in the map's current iteration order.                    *)
(***************************************************************************)
EXTENDS Integers, Sequences, FiniteSets, TLC

VARIABLES contacts, file, ret, tasks, lock

vars == <<contacts, file, ret, tasks, lock>>

\* ------------------------------------------------------------------ bounds

\* Largest id the repository hands out in a run (ids start at 2).
MaxId == 3

\* HashMap::insert of a new key may leave the entries in any iteration
\* order: maps of up to MaxPermute entries are explored in every order,
\* and a larger map iterates over a newer entry last.
MaxPermute == 2

\* Contacts saved in the paging specification, and the pages it asks for.
MaxPageContacts == 15
MaxPage == 3

\* ------------------------------------------------------------------ Option

None == <<>>

Some(x) == <<x>>

IsSome(o) == o # <<>>

Unwrap(o) == o[1]

\* ------------------------------------------------------------------ Contact

NoErrors == <<>>

\* HashMap<String, String>::insert on the error map.
ErrorsInsert(errors, k, v) ==
  [x \in (DOMAIN errors) \cup {k} |-> IF x = k THEN v ELSE errors[x]]

ContactDefault ==
  [id |-> None, first |-> None, last |-> None, phone |-> None,
   email |-> None, errors |-> NoErrors]

\* A payload is the 4-tuple <<first, last, phone, email>> of a form.
ContactNew(pl) ==
  [ContactDefault EXCEPT !.first = pl[1], !.last = pl[2],
                         !.phone = pl[3], !.email = pl[4]]

ContactUpdate(c, pl) ==
  [c EXCEPT !.first = pl[1], !.last = pl[2], !.phone = pl[3], !.email = pl[4]]

\* Contact::validate with one of its two email checks left out.
ContactValidateNoEmptyCheck(c) ==
  LET e1 == IF c.email = None
            THEN ErrorsInsert(c.errors, "email", "Email Required")
            ELSE c.errors
  IN  [contact |-> [c EXCEPT !.errors = e1], ok |-> DOMAIN e1 = {}]

\* Contact::validate judging the fields alone, whatever the error map
\* already holds.
ContactValidateIgnoresOldErrors(c) ==
  [contact |-> c, ok |-> IsSome(c.email) /\ Unwrap(c.email) # <<>>]

\* Contact::validate: the error map is added to, never cleared.
ContactValidate(c) ==
  LET e1 == IF c.email = None
            THEN ErrorsInsert(c.errors, "email", "Email Required")
            ELSE c.errors
      e2 == IF IsSome(c.email) /\ Unwrap(c.email) = <<>>
            THEN ErrorsInsert(e1, "email", "Email Required")
            ELSE e1
  IN  [contact |-> [c EXCEPT !.errors = e2], ok |-> DOMAIN e2 = {}]

\* ------------------------------------------------------------------ HashMap

Entry(k, v) == [key |-> k, value |-> v]

Keys(m) == {m[i].key : i \in 1..Len(m)}

Values(m) == [i \in 1..Len(m) |-> m[i].value]

HashMapGet(m, k) ==
  IF k \in Keys(m)
  THEN Some(m[CHOOSE i \in 1..Len(m) : m[i].key = k].value)
  ELSE None

Reorderings(s) ==
  LET n == Len(s)
      bij == {f \in [1..n -> 1..n] : \A i, j \in 1..n : i # j => f[i] # f[j]}
  IN  {[i \in 1..n |-> s[f[i]]] : f \in bij}

\* The maps HashMap::insert(k, v) can leave: an existing key keeps its
\* place, a new key may rehash the table.
HashMapInsert(m, k, v) ==
  IF k \in Keys(m)
  THEN {[i \in 1..Len(m) |-> IF m[i].key = k THEN Entry(k, v) ELSE m[i]]}
  ELSE IF Len(m) < MaxPermute
       THEN Reorderings(Append(m, Entry(k, v)))
       ELSE {Append(m, Entry(k, v))}

RECURSIVE HashMapRemove(_, _)
HashMapRemove(m, k) ==
  IF m = <<>> THEN <<>>
  ELSE IF Head(m).key = k THEN HashMapRemove(Tail(m), k)
       ELSE <<Head(m)>> \o HashMapRemove(Tail(m), k)

\* ------------------------------------------------------------------ strings

\* A substring test that finds no empty needle.
StrContainsNonEmpty(s, q) ==
  /\ Len(q) > 0
  /\ \E i \in 1..(Len(s) - Len(q) + 1) : SubSeq(s, i, i + Len(q) - 1) = q

\* str::contains(&str)
StrContains(s, q) ==
  \E i \in 1..(Len(s) - Len(q) + 1) : SubSeq(s, i, i + Len(q) - 1) = q

FieldContains(f, q) == IF IsSome(f) THEN StrContains(Unwrap(f), q) ELSE FALSE

\* ------------------------------------------------------------------ JSON file

JsonNull == [t |-> "null"]

JsonNum(n) == [t |-> "num", v |-> n]

JsonStr(s) == [t |-> "str", v |-> s]

\* serde's Serialize for Option<u64> and Option<String>.
SerializeOptNum(o) == IF IsSome(o) THEN JsonNum(Unwrap(o)) ELSE JsonNull

SerializeOptStr(o) == IF IsSome(o) THEN JsonStr(Unwrap(o)) ELSE JsonNull

DeserializeOpt(j) == IF j.t = "null" THEN None ELSE Some(j.v)

\* Serialize that writes an empty string as null.
SerializeContactEmptyAsNull(c) ==
  LET str(o) == IF IsSome(o) /\ Unwrap(o) # <<>> THEN JsonStr(Unwrap(o)) ELSE JsonNull
  IN  [id |-> SerializeOptNum(c.id), first |-> str(c.first), last |-> str(c.last),
       phone |-> str(c.phone), email |-> str(c.email),
       errors |-> [k \in DOMAIN c.errors |-> JsonStr(c.errors[k])]]

\* #[derive(Serialize)] for Contact: every field, errors included.
SerializeContact(c) ==
  [id |-> SerializeOptNum(c.id), first |-> SerializeOptStr(c.first),
   last |-> SerializeOptStr(c.last), phone |-> SerializeOptStr(c.phone),
   email |-> SerializeOptStr(c.email),
   errors |-> [k \in DOMAIN c.errors |-> JsonStr(c.errors[k])]]

\* #[derive(Deserialize)] for Contact.
DeserializeContact(j) ==
  [id |-> DeserializeOpt(j.id), first |-> DeserializeOpt(j.first),
   last |-> DeserializeOpt(j.last), phone |-> DeserializeOpt(j.phone),
   email |-> DeserializeOpt(j.email),
   errors |-> [k \in DOMAIN j.errors |-> j.errors[k].v]]

\* The backing file: None while it does not exist, else Some(JSON array).
NoFile == None

\* MemContactRepo::save_db: the file is overwritten with every contact of
\* the store, in the map's iteration order.
save_db(m) ==
  Some([i \in 1..Len(m) |-> SerializeContact(Values(m)[i])])

\* The loop of ContactStore::from_path over the parsed contact list: the
\* maps a fresh HashMap can become.
RECURSIVE FromList(_, _)
FromList(list, m) ==
  IF list = <<>> THEN {m}
  ELSE UNION {FromList(Tail(list), m2) :
                m2 \in HashMapInsert(m, Unwrap(Head(list).id), Head(list))}

\* ContactStore::from_path on an existing file.
from_path(f) ==
  FromList([i \in 1..Len(Unwrap(f)) |-> DeserializeContact(Unwrap(f)[i])], <<>>)

\* ------------------------------------------------------------------ repository

PAGE_SIZE == 10

Min(a, b) == IF a < b THEN a ELSE b

\* Iterator::skip and Iterator::take on a sequence.
Skip(s, n) == SubSeq(s, n + 1, Len(s))

Take(s, n) == SubSeq(s, 1, Min(n, Len(s)))

\* all with the page taken as 0-indexed.
allZeroIndexed(m, page) ==
  LET start == page * PAGE_SIZE
  IN  Take(Skip(Values(m), start), PAGE_SIZE)

\* MemContactRepo::all for page >= 1.
all(m, page) ==
  LET start == (page - 1) * PAGE_SIZE
  IN  Take(Skip(Values(m), start), PAGE_SIZE)

\* What a call returns: Result::Ok(()), Result::Err(contact), or a panic.
Ok == <<"Ok">>

Err(c) == <<"Err", c>>

Panic == <<"panic">>

\* usize arithmetic of all: 64 bits, kept as four 16-bit limbs, least
\* significant limb first, so that the wrap-around is the one of the code.
LimbBase == 2^16

\* The usize of a small natural number.
Usize(n) == <<n % LimbBase, (n \div LimbBase) % LimbBase, 0, 0>>

\* a - b limb by limb; overflow is the borrow out of the last limb.
RECURSIVE SubLimbs(_, _, _)
SubLimbs(a, b, borrow) ==
  IF a = <<>>
  THEN [limbs |-> <<>>, overflow |-> borrow = 1]
  ELSE LET d == Head(a) - Head(b) - borrow
           rest == SubLimbs(Tail(a), Tail(b), IF d < 0 THEN 1 ELSE 0)
       IN  [limbs |-> <<(d + LimbBase) % LimbBase>> \o rest.limbs,
            overflow |-> rest.overflow]

\* a * k for a small k; overflow is the carry out of the last limb.
RECURSIVE MulLimbs(_, _, _)
MulLimbs(a, k, carry) ==
  IF a = <<>>
  THEN [limbs |-> <<>>, overflow |-> carry # 0]
  ELSE LET p == Head(a) * k + carry
           rest == MulLimbs(Tail(a), k, p \div LimbBase)
       IN  [limbs |-> <<p % LimbBase>> \o rest.limbs,
            overflow |-> rest.overflow]

\* a + b limb by limb; overflow is the carry out of the last limb.
RECURSIVE AddLimbs(_, _, _)
AddLimbs(a, b, carry) ==
  IF a = <<>>
  THEN [limbs |-> <<>>, overflow |-> carry # 0]
  ELSE LET s == Head(a) + Head(b) + carry
           rest == AddLimbs(Tail(a), Tail(b), s \div LimbBase)
       IN  [limbs |-> <<s % LimbBase>> \o rest.limbs,
            overflow |-> rest.overflow]

\* Iterator::skip by a usize, on a sequence shorter than LimbBase.
SkipUsize(s, n) ==
  IF \E i \in 2..Len(n) : n[i] # 0 THEN <<>> ELSE Skip(s, Min(n[1], Len(s)))

\* all with the offset computed by a saturating subtraction.
allUsizeSaturating(m, page, overflow_checks) ==
  LET start == IF page = 0 THEN 0 ELSE (page - 1) * PAGE_SIZE
  IN  [panicked |-> FALSE,
       contacts |-> Take(Skip(Values(m), Min(start, Len(m))), PAGE_SIZE)]

\* MemContactRepo::all on any usize page. An overflow of page - 1, of the
\* product or of start + PAGE_SIZE panics in a build with overflow checks
\* and wraps in a build without them. The outcome is whether the call
\* panicked and, if not, the contacts it returned.
allUsize(m, page, overflow_checks) ==
  LET sub == SubLimbs(Usize(page), Usize(1), 0)
      mul == MulLimbs(sub.limbs, PAGE_SIZE, 0)
      start == mul.limbs
      end == AddLimbs(start, Usize(PAGE_SIZE), 0)
  IN  IF overflow_checks /\ (sub.overflow \/ mul.overflow \/ end.overflow)
      THEN [panicked |-> TRUE, contacts |-> <<>>]
      ELSE [panicked |-> FALSE,
            contacts |-> Take(SkipUsize(Values(m), start), PAGE_SIZE)]

\* The loop of MemContactRepo::search over the values of the store.
RECURSIVE SearchLoop(_, _)
SearchLoop(vals, query) ==
  IF vals = <<>> THEN <<>>
  ELSE LET contact == Head(vals)
           match_first == FieldContains(contact.first, query)
           match_last == FieldContains(contact.last, query)
           match_phone == FieldContains(contact.phone, query)
           match_email == FieldContains(contact.email, query)
       IN  (IF match_first \/ match_last \/ match_phone \/ match_email
            THEN <<contact>> ELSE <<>>) \o SearchLoop(Tail(vals), query)

\* search that leaves the phone out.
RECURSIVE SearchLoopNoPhone(_, _)
SearchLoopNoPhone(vals, query) ==
  IF vals = <<>> THEN <<>>
  ELSE LET contact == Head(vals)
       IN  (IF \/ FieldContains(contact.first, query)
               \/ FieldContains(contact.last, query)
               \/ FieldContains(contact.email, query)
            THEN <<contact>> ELSE <<>>) \o SearchLoopNoPhone(Tail(vals), query)

searchNoPhone(m, query) == SearchLoopNoPhone(Values(m), query)

\* MemContactRepo::search
search(m, query) == SearchLoop(Values(m), query)

\* The loop of MemContactRepo::validate over the search result; unwrap of
\* an absent email panics.
RECURSIVE ValidateLoop(_, _)
ValidateLoop(found, contact) ==
  IF found = <<>> THEN [contact |-> contact, ok |-> TRUE, panic |-> FALSE]
  ELSE LET cont == Head(found)
       IN  IF contact.id # cont.id
           THEN IF cont.email = None
                THEN [contact |-> contact, ok |-> FALSE, panic |-> TRUE]
                ELSE IF Unwrap(cont.email) = Unwrap(contact.email)
                     THEN [contact |->
                             [contact EXCEPT !.errors =
                                ErrorsInsert(contact.errors, "email",
                                             "Email Already Exists")],
                           ok |-> FALSE, panic |-> FALSE]
                     ELSE ValidateLoop(Tail(found), contact)
           ELSE ValidateLoop(Tail(found), contact)

\* The uniqueness loop without its id comparison.
RECURSIVE ValidateLoopNoSelf(_, _)
ValidateLoopNoSelf(found, contact) ==
  IF found = <<>> THEN [contact |-> contact, ok |-> TRUE, panic |-> FALSE]
  ELSE IF Head(found).email = None
       THEN [contact |-> contact, ok |-> FALSE, panic |-> TRUE]
       ELSE IF Unwrap(Head(found).email) = Unwrap(contact.email)
            THEN [contact |->
                    [contact EXCEPT !.errors =
                       ErrorsInsert(contact.errors, "email",
                                    "Email Already Exists")],
                  ok |-> FALSE, panic |-> FALSE]
            ELSE ValidateLoopNoSelf(Tail(found), contact)

\* MemContactRepo::validate counting the contact's own stored entry.
RepoValidateNoSelf(m, contact) ==
  LET v == ContactValidate(contact)
  IN  IF ~v.ok
      THEN [contact |-> v.contact, ok |-> FALSE, panic |-> FALSE]
      ELSE ValidateLoopNoSelf(search(m, Unwrap(v.contact.email)), v.contact)

\* MemContactRepo::validate
RepoValidate(m, contact) ==
  LET v == ContactValidate(contact)
  IN  IF ~v.ok
      THEN [contact |-> v.contact, ok |-> FALSE, panic |-> FALSE]
      ELSE ValidateLoop(search(m, Unwrap(v.contact.email)), v.contact)

\* Iterator::max over the keys.
RECURSIVE IterMax(_, _)
IterMax(keys, acc) ==
  IF keys = <<>> THEN acc
  ELSE IterMax(Tail(keys),
               IF acc = None \/ Head(keys) >= Unwrap(acc)
               THEN Some(Head(keys)) ELSE acc)

\* max_id with 0 for the empty store.
max_idFromZero(m) ==
  LET top == IterMax([i \in 1..Len(m) |-> m[i].key], None)
  IN  IF IsSome(top) THEN Unwrap(top) ELSE 0

\* MemContactRepo::max_id
max_id(m) ==
  LET top == IterMax([i \in 1..Len(m) |-> m[i].key], None)
  IN  IF IsSome(top) THEN Unwrap(top) ELSE 1

\* MemContactRepo::save: the outcomes of one call, each the store it
\* leaves, whether save_db ran, and the Result returned.
save(m, contact) ==
  LET v == RepoValidate(m, contact)
  IN  IF v.panic
      THEN {[contacts |-> m, wrote |-> FALSE, result |-> Panic]}
      ELSE IF ~v.ok
      THEN {[contacts |-> m, wrote |-> FALSE, result |-> Err(v.contact)]}
      ELSE LET c == IF v.contact.id = None
                    THEN [v.contact EXCEPT !.id = Some(max_id(m) + 1)]
                    ELSE v.contact
           IN  {[contacts |-> m2, wrote |-> TRUE, result |-> Ok] :
                  m2 \in HashMapInsert(m, Unwrap(c.id), c)}

\* find answering an absent id with a default contact.
findOrDefault(m, id) ==
  IF id \in Keys(m) THEN HashMapGet(m, id) ELSE Some(ContactDefault)

\* MemContactRepo::find
find(m, id) == HashMapGet(m, id)

\* delete treating an id that is not stored as a failure.
deleteStrict(m, contact) ==
  IF contact.id = None \/ Unwrap(contact.id) \notin Keys(m)
  THEN [contacts |-> m, wrote |-> FALSE, result |-> Panic]
  ELSE [contacts |-> HashMapRemove(m, Unwrap(contact.id)), wrote |-> TRUE,
        result |-> Ok]

\* MemContactRepo::delete; unwrap of an absent id panics.
delete(m, contact) ==
  IF contact.id = None
  THEN [contacts |-> m, wrote |-> FALSE, result |-> Panic]
  ELSE [contacts |-> HashMapRemove(m, Unwrap(contact.id)), wrote |-> TRUE,
        result |-> Ok]

\* ------------------------------------------------------------------ inputs

\* Form payloads <<first, last, phone, email>>: email absent; email empty;
\* two payloads with the same email and different other fields, which
\* match a query only through first, last or phone; an email that
\* contains another without being equal to it; an email that differs from
\* another only in case.
Payloads ==
  { <<None, None, None, None>>,
    <<Some(<<"a">>), None, None, Some(<<>>)>>,
    <<Some(<<"b">>), Some(<<"A">>), None, Some(<<"a">>)>>,
    <<None, None, Some(<<"a", "b">>), Some(<<"a">>)>>,
    <<None, None, None, Some(<<"a", "b">>)>>,
    <<Some(<<>>), None, None, Some(<<"A">>)>> }

Queries == { <<>>, <<"a">>, <<"A">>, <<"b">>, <<"a", "b">>, <<"b", "a">> }

\* The n-th payload of the paging specification: email "a" repeated n times.
PagePayload(n) == <<None, None, None, Some([i \in 1..n |-> "a"])>>

\* ------------------------------------------------------------------ state

\* ret is the last repository call: its name, its contact argument, the
\* store it was called on, and what it returned.
Call(op, arg, before, value) ==
  [op |-> op, arg |-> arg, before |-> before, value |-> value]

\* The requests the server runs at once, each a task of the runtime.
Tasks == {"t1", "t2"}

\* A task record: the handler it runs and where it is in it (pc), the
\* path id and form payload of the request, the contact the handler holds
\* (c), the number of contacts its save_db has written (pos), how many
\* requests the task has served (n), and whether a delete request for its
\* id completed after its find and before its save (raced).
IdleTask ==
  [pc |-> "idle", handler |-> "none", id |-> 0, pl |-> <<>>,
   c |-> ContactDefault, pos |-> 0, n |-> 0, raced |-> FALSE]

\* tokio::sync::RwLock around the store: the tasks holding a read guard
\* and the task holding the write guard.
Unlocked == [readers |-> {}, writer |-> {}]

Init ==
  /\ contacts = <<>>
  /\ file = NoFile
  /\ ret = Call("none", None, <<>>, None)
  /\ tasks = [p \in Tasks |-> IdleTask]
  /\ lock = Unlocked

\* The contacts the caller holds after the last call: the argument it
\* passed (a clone), the contact an Err returned, the contact find found.
Held ==
  CASE ret.op = "save" ->
         {Unwrap(ret.arg)} \cup
         (IF ret.value[1] = "Err" THEN {ret.value[2]} ELSE {})
    [] ret.op = "delete" -> {Unwrap(ret.arg)}
    [] ret.op = "find" -> IF IsSome(ret.value) THEN {Unwrap(ret.value)} ELSE {}
    [] OTHER -> {}

\* ------------------------------------------------------------------ actions

\* One call of save(contact), ids capped at maxid.
DoSave(contact, maxid) ==
  \E out \in save(contacts, contact) :
    /\ \A k \in Keys(out.contacts) : k <= maxid
    /\ contacts' = out.contacts
    /\ file' = IF out.wrote THEN save_db(out.contacts) ELSE file
    /\ ret' = Call("save", Some(contact), contacts, out.result)
    /\ UNCHANGED <<tasks, lock>>

\* post_contacts_new: a contact built from the form, then saved.
SaveNew(pl) == DoSave(ContactNew(pl), MaxId)

\* save of a contact the caller holds, as it is.
SaveHeld == \E c \in Held : DoSave(c, MaxId)

\* contacts_edit_post after its find: update from the form, then save.
UpdateSave(pl) == \E c \in Held : DoSave(ContactUpdate(c, pl), MaxId)

\* delete of a contact the caller holds.
Delete ==
  \E c \in Held :
    LET out == delete(contacts, c)
    IN  /\ contacts' = out.contacts
        /\ file' = IF out.wrote THEN save_db(out.contacts) ELSE file
        /\ ret' = Call("delete", Some(c), contacts, out.result)
        /\ UNCHANGED <<tasks, lock>>

Find(id) ==
  /\ ret' = Call("find", Some(id), contacts, find(contacts, id))
  /\ UNCHANGED <<contacts, file, tasks, lock>>

Search(query) ==
  /\ ret' = Call("search", Some(query), contacts, search(contacts, query))
  /\ UNCHANGED <<contacts, file, tasks, lock>>

\* all(page); the pages listed since the last other call are kept.
List(page) ==
  LET old == IF ret.op = "list" THEN ret.value ELSE <<>>
      new == [p \in (DOMAIN old) \cup {page} |->
                IF p = page THEN all(contacts, page) ELSE old[p]]
  IN  /\ ret' = Call("list", None, contacts, new)
      /\ UNCHANGED <<contacts, file, tasks, lock>>

\* all(page) on any usize page, page 0 included, in either build.
ListUsize(page) ==
  \E overflow_checks \in BOOLEAN :
    /\ ret' = Call("all", Some(page), contacts,
                   allUsize(contacts, page, overflow_checks))
    /\ UNCHANGED <<contacts, file, tasks, lock>>

\* A restart: MemContactRepo::shared_from_path on the backing file.
Reload ==
  /\ file # NoFile
  /\ contacts' \in from_path(file)
  /\ ret' = Call("load", None, contacts, None)
  /\ UNCHANGED <<file, tasks, lock>>

Next ==
  \/ \E pl \in Payloads : SaveNew(pl)
  \/ SaveHeld
  \/ \E pl \in Payloads : UpdateSave(pl)
  \/ Delete
  \/ \E id \in 1..MaxId : Find(id)
  \/ \E query \in Queries : Search(query)
  \/ \E page \in 1..MaxPage : List(page)
  \/ Reload

Spec == Init /\ [][Next]_vars

\* The paging specification: distinct contacts saved one after the other
\* into an empty store, and pages listed in between.
PageSave ==
  \E n \in 1..MaxPageContacts :
    /\ n <= Len(contacts) + 1
    /\ DoSave(ContactNew(PagePayload(n)), MaxPageContacts + 1)

PageNext ==
  \/ PageSave
  \/ \E page \in 1..MaxPage : List(page)
  \/ \E page \in 0..MaxPage : ListUsize(page)

PageSpec == Init /\ [][PageNext]_vars

\* ------------------------------------------------------------------ requests

\* Requests served in a run of the concurrent specification.
MaxRequests == 3

\* Form payloads of the concurrent requests: an empty email and two
\* different emails.
AppPayloads ==
  { <<Some(<<"a">>), None, None, Some(<<>>)>>,
    <<None, None, Some(<<"a", "b">>), Some(<<"a">>)>>,
    <<None, None, None, Some(<<"a", "b">>)>> }

\* Path ids of the concurrent requests.
AppIds == {2, 3}

Started == tasks["t1"].n + tasks["t2"].n

Quiet == {"idle", "done", "panicked"}

\* A task takes a new request once its last one has ended.
Start(p, handler, pc, id, pl, c) ==
  /\ tasks[p].pc \in Quiet
  /\ Started < MaxRequests
  /\ tasks' = [tasks EXCEPT ![p] =
                 [IdleTask EXCEPT !.pc = pc, !.handler = handler, !.id = id,
                                  !.pl = pl, !.c = c, !.n = tasks[p].n + 1]]
  /\ UNCHANGED <<contacts, file, ret, lock>>

\* RwLock::read and RwLock::write, granted when the guards held allow it.
ReadGuard(p) == [lock EXCEPT !.readers = @ \cup {p}]

WriteGuard(p) == [lock EXCEPT !.writer = @ \cup {p}]

\* Dropping the guard(s) a task holds.
Dropped(p) == [readers |-> lock.readers \ {p}, writer |-> lock.writer \ {p}]

CanRead == lock.writer = {}

CanWrite == lock.writer = {} /\ lock.readers = {}

\* The end of a request: the response is sent, or the task has panicked.
Ended(t, pc) ==
  [IdleTask EXCEPT !.pc = pc, !.handler = t.handler, !.id = t.id, !.n = t.n]

\* post_contacts_new: a contact from the form, then save.
StartNew(p, pl) ==
  Start(p, "post_contacts_new", "validate", 0, <<>>, ContactNew(pl))

\* contacts_edit_post, contacts_delete, contact_view, contacts_edit_get
\* and contacts_email_get all begin with find(contact_id).
StartEdit(p, id, pl) ==
  Start(p, "contacts_edit_post", "find", id, pl, ContactDefault)

StartDelete(p, id) ==
  Start(p, "contacts_delete", "find", id, <<>>, ContactDefault)

StartView(p, id, handler) == Start(p, handler, "find", id, <<>>, ContactDefault)

\* contacts: search(q) or all, a single read of the store.
StartContacts(p) == Start(p, "contacts", "query", 0, <<>>, ContactDefault)

\* search and all: the read guard is taken, the values are read, and the
\* guard is dropped on return.
QueryLock(p) ==
  /\ tasks[p].pc = "query"
  /\ CanRead
  /\ lock' = ReadGuard(p)
  /\ tasks' = [tasks EXCEPT ![p].pc = "query_read"]
  /\ UNCHANGED <<contacts, file, ret>>

QueryReturn(p) ==
  /\ tasks[p].pc = "query_read"
  /\ lock' = Dropped(p)
  /\ tasks' = [tasks EXCEPT ![p] = Ended(tasks[p], "done")]
  /\ UNCHANGED <<contacts, file, ret>>

\* find: the read guard is taken ...
FindLock(p) ==
  /\ tasks[p].pc = "find"
  /\ CanRead
  /\ lock' = ReadGuard(p)
  /\ tasks' = [tasks EXCEPT ![p].pc = "find_read"]
  /\ UNCHANGED <<contacts, file, ret>>

\* find answering an absent id with a default contact, in the handlers.
FindReturnOrDefault(p) ==
  LET t == tasks[p]
      found == findOrDefault(contacts, t.id)
      c == Unwrap(found)
  IN  /\ t.pc = "find_read"
      /\ lock' = Dropped(p)
      /\ tasks' = [tasks EXCEPT ![p] =
           CASE t.handler = "contacts_edit_post" ->
                  [t EXCEPT !.pc = "validate", !.c = ContactUpdate(c, t.pl)]
             [] t.handler = "contacts_delete" /\ IsSome(c.id) ->
                  [t EXCEPT !.pc = "remove", !.c = c]
             [] OTHER -> Ended(t, "done")]
      /\ UNCHANGED <<contacts, file, ret>>

\* ... and dropped when find returns. The handler unwraps the result: an
\* absent id panics, a found contact is shown (the three GET handlers),
\* updated from the form and saved (contacts_edit_post), or deleted
\* (contacts_delete).
FindReturn(p) ==
  LET t == tasks[p]
      found == find(contacts, t.id)
      c == Unwrap(found)
  IN  /\ t.pc = "find_read"
      /\ lock' = Dropped(p)
      /\ tasks' = [tasks EXCEPT ![p] =
           CASE found = None -> Ended(t, "panicked")
             [] t.handler = "contacts_edit_post" ->
                  [t EXCEPT !.pc = "validate", !.c = ContactUpdate(c, t.pl)]
             [] t.handler = "contacts_delete" ->
                  [t EXCEPT !.pc = "remove", !.c = c]
             [] OTHER -> Ended(t, "done")]
      /\ UNCHANGED <<contacts, file, ret>>

\* save, MemContactRepo::validate: Contact::validate runs without the
\* lock and its failure returns Err; otherwise search takes a read guard.
ValidateLock(p) ==
  LET t == tasks[p]
  IN  /\ t.pc = "validate"
      /\ IF ~ContactValidate(t.c).ok
         THEN /\ tasks' = [tasks EXCEPT ![p] = Ended(t, "done")]
              /\ lock' = lock
         ELSE /\ CanRead
              /\ lock' = ReadGuard(p)
              /\ tasks' = [tasks EXCEPT ![p].pc = "validate_read"]
      /\ UNCHANGED <<contacts, file, ret>>

\* search returns (its guard dropped) and the uniqueness loop runs on its
\* result: Err if another contact has the email, else on to max_id for a
\* contact without id and to the insert for one with an id.
ValidateReturn(p) ==
  LET t == tasks[p]
      v == RepoValidate(contacts, t.c)
  IN  /\ t.pc = "validate_read"
      /\ lock' = Dropped(p)
      /\ tasks' = [tasks EXCEPT ![p] =
           IF ~v.ok THEN Ended(t, "done")
           ELSE [t EXCEPT !.c = v.contact,
                          !.pc = IF v.contact.id = None THEN "max_id"
                                 ELSE "insert"]]
      /\ UNCHANGED <<contacts, file, ret>>

\* max_id under a read guard of its own ...
MaxIdLock(p) ==
  /\ tasks[p].pc = "max_id"
  /\ CanRead
  /\ lock' = ReadGuard(p)
  /\ tasks' = [tasks EXCEPT ![p].pc = "max_id_read"]
  /\ UNCHANGED <<contacts, file, ret>>

\* ... and contact.id = Some(max_id + 1) once it has returned.
MaxIdReturn(p) ==
  /\ tasks[p].pc = "max_id_read"
  /\ lock' = Dropped(p)
  /\ tasks' = [tasks EXCEPT ![p].pc = "insert",
                            ![p].c.id = Some(max_id(contacts) + 1)]
  /\ UNCHANGED <<contacts, file, ret>>

\* The insert of save under the write guard ...
InsertLock(p) ==
  /\ tasks[p].pc = "insert"
  /\ CanWrite
  /\ lock' = WriteGuard(p)
  /\ tasks' = [tasks EXCEPT ![p].pc = "insert_write"]
  /\ UNCHANGED <<contacts, file, ret>>

\* The insert of save keeping its write guard into save_db.
InsertReturnKeepsGuard(p) ==
  LET t == tasks[p]
  IN  /\ t.pc = "insert_write"
      /\ contacts' \in HashMapInsert(contacts, Unwrap(t.c.id), t.c)
      /\ lock' = lock
      /\ tasks' = [tasks EXCEPT ![p].pc = "create"]
      /\ UNCHANGED <<file, ret>>

\* ... which is dropped at the end of the statement.
InsertReturn(p) ==
  LET t == tasks[p]
  IN  /\ t.pc = "insert_write"
      /\ contacts' \in HashMapInsert(contacts, Unwrap(t.c.id), t.c)
      /\ lock' = Dropped(p)
      /\ tasks' = [tasks EXCEPT ![p].pc = "create"]
      /\ UNCHANGED <<file, ret>>

\* The remove of delete under the write guard ...
RemoveLock(p) ==
  /\ tasks[p].pc = "remove"
  /\ CanWrite
  /\ lock' = WriteGuard(p)
  /\ tasks' = [tasks EXCEPT ![p].pc = "remove_write"]
  /\ UNCHANGED <<contacts, file, ret>>

\* ... which is dropped at the end of the statement.
RemoveReturn(p) ==
  LET t == tasks[p]
  IN  /\ t.pc = "remove_write"
      /\ contacts' = HashMapRemove(contacts, Unwrap(t.c.id))
      /\ lock' = Dropped(p)
      /\ tasks' = [tasks EXCEPT ![p].pc = "create"]
      /\ UNCHANGED <<file, ret>>

\* A hole of the file: a position past which a task wrote before any
\* task wrote the position itself.
Hole == [t |-> "hole"]

\* A write of x at position i through a file handle of its own offset.
WriteAt(f, i, x) ==
  LET old == Unwrap(f)
      n == IF Len(old) < i THEN i ELSE Len(old)
  IN  Some([k \in 1..n |-> IF k = i THEN x
                           ELSE IF k <= Len(old) THEN old[k] ELSE Hole])

\* save_db opening the file without truncating it.
CreateKeepsContent(p) ==
  /\ tasks[p].pc = "create"
  /\ file' = IF file = NoFile THEN Some(<<>>) ELSE file
  /\ tasks' = [tasks EXCEPT ![p].pc = "save_db", ![p].pos = 0]
  /\ UNCHANGED <<contacts, ret, lock>>

\* save_db, fs::File::create: the file is truncated, before the lock is
\* asked for, and the handle starts at offset 0.
Create(p) ==
  /\ tasks[p].pc = "create"
  /\ file' = Some(<<>>)
  /\ tasks' = [tasks EXCEPT ![p].pc = "save_db", ![p].pos = 0]
  /\ UNCHANGED <<contacts, ret, lock>>

\* save_db, store.read(): the guard is held until save_db returns.
SaveDbLock(p) ==
  /\ tasks[p].pc = "save_db"
  /\ CanRead
  /\ lock' = ReadGuard(p)
  /\ tasks' = [tasks EXCEPT ![p].pc = "write"]
  /\ UNCHANGED <<contacts, file, ret>>

\* save_db, serde_json::to_writer: the contacts of the store are written
\* one after the other, each flushed by itself in the worst case.
Write(p) ==
  LET t == tasks[p]
  IN  /\ t.pc = "write"
      /\ t.pos < Len(contacts)
      /\ file' = WriteAt(file, t.pos + 1,
                         SerializeContact(Values(contacts)[t.pos + 1]))
      /\ tasks' = [tasks EXCEPT ![p].pos = t.pos + 1]
      /\ UNCHANGED <<contacts, ret, lock>>

\* save_db returns, its guard is dropped, and save or delete returns Ok.
\* A delete that has completed marks the edit requests for its id that
\* have found the contact and not yet called save.
SaveDbReturn(p) ==
  LET t == tasks[p]
      marks(q) == /\ t.handler = "contacts_delete"
                  /\ q # p
                  /\ tasks[q].handler = "contacts_edit_post"
                  /\ tasks[q].pc = "validate"
                  /\ tasks[q].id = t.id
  IN  /\ t.pc = "write"
      /\ t.pos = Len(contacts)
      /\ lock' = Dropped(p)
      /\ tasks' = [q \in Tasks |->
                     IF q = p THEN Ended(t, "done")
                     ELSE IF marks(q) THEN [tasks[q] EXCEPT !.raced = TRUE]
                     ELSE tasks[q]]
      /\ UNCHANGED <<contacts, file, ret>>

GetHandlers == {"contact_view", "contacts_edit_get", "contacts_email_get"}

\* One step of the request a task is serving.
Step(p) ==
  \/ QueryLock(p)
  \/ QueryReturn(p)
  \/ FindLock(p)
  \/ FindReturn(p)
  \/ ValidateLock(p)
  \/ ValidateReturn(p)
  \/ MaxIdLock(p)
  \/ MaxIdReturn(p)
  \/ InsertLock(p)
  \/ InsertReturn(p)
  \/ RemoveLock(p)
  \/ RemoveReturn(p)
  \/ Create(p)
  \/ SaveDbLock(p)
  \/ Write(p)
  \/ SaveDbReturn(p)

AppNext ==
  \/ \E p \in Tasks, pl \in AppPayloads : StartNew(p, pl)
  \/ \E p \in Tasks, id \in AppIds, pl \in AppPayloads : StartEdit(p, id, pl)
  \/ \E p \in Tasks, id \in AppIds : StartDelete(p, id)
  \/ \E p \in Tasks, id \in AppIds, h \in GetHandlers : StartView(p, id, h)
  \/ \E p \in Tasks : StartContacts(p)
  \/ \E p \in Tasks : Step(p)

\* The server: requests arrive at any time and run interleaved.
AppSpec == Init /\ [][AppNext]_vars

\* Requests served in a run of the fair specification.
MaxFairRequests == 2

FewStarted == Started <= MaxFairRequests

FairNext ==
  \/ \E p \in Tasks, pl \in AppPayloads : StartNew(p, pl) /\ FewStarted'
  \/ \E p \in Tasks, id \in AppIds, pl \in AppPayloads :
       StartEdit(p, id, pl) /\ FewStarted'
  \/ \E p \in Tasks, id \in AppIds : StartDelete(p, id) /\ FewStarted'
  \/ \E p \in Tasks, id \in AppIds, h \in GetHandlers :
       StartView(p, id, h) /\ FewStarted'
  \/ \E p \in Tasks : StartContacts(p) /\ FewStarted'
  \/ \E p \in Tasks : Step(p)

\* The server with a runtime that keeps polling every task that can take
\* a step, and a lock that grants every request that can be granted.
FairAppSpec ==
  Init /\ [][FairNext]_vars /\ \A p \in Tasks : WF_vars(Step(p))

\* ------------------------------------------------------------------ claims

\* The contacts a store holds, and its entries without their order.
Stored(m) == {m[i].value : i \in 1..Len(m)}

EntrySet(m) == {m[i] : i \in 1..Len(m)}

Elems(seq) == {seq[i] : i \in 1..Len(seq)}

Max(a, b) == IF a > b THEN a ELSE b

\* q occurs in s, stated over the positions where it starts and ends.
Occurs(q, s) == \E i \in 0..Len(s) : \E j \in i..Len(s) : SubSeq(s, i + 1, j) = q

IsSave == ret.op = "save"

SaveArg == Unwrap(ret.arg)

\* Some contact stored before the call, under another id, has c's email.
EmailTaken(m, c) ==
  \E i \in 1..Len(m) : Some(m[i].key) # c.id /\ m[i].value.email = c.email

NonEmptyEmail(c) == IsSome(c.email) /\ Unwrap(c.email) # <<>>

\* C1: save(c) of a contact with a non-empty email that another stored
\* contact (of a different id) already has fails, returns c with errors
\* exactly {"email": "Email Already Exists"}, and leaves the store as it was.
C1_DuplicateEmailRejected ==
  (IsSave /\ NonEmptyEmail(SaveArg) /\ EmailTaken(ret.before, SaveArg)) =>
    /\ ret.value = Err([SaveArg EXCEPT !.errors =
                          [k \in {"email"} |-> "Email Already Exists"]])
    /\ contacts = ret.before

\* C2: save(c) of a contact whose email is absent or empty fails, the
\* returned contact carries "email" -> "Email Required", and the store has
\* the same size and contents as before the call.
C2_EmailRequired ==
  (IsSave /\ ~NonEmptyEmail(SaveArg)) =>
    /\ ret.value[1] = "Err"
    /\ "email" \in DOMAIN ret.value[2].errors
    /\ ret.value[2].errors["email"] = "Email Required"
    /\ Len(contacts) = Len(ret.before)
    /\ contacts = ret.before

\* C2 witness: a contact with an empty email was refused by a store that
\* holds contacts.
C2_Witness ==
  /\ IsSave
  /\ SaveArg.email = Some(<<>>)
  /\ ret.value[1] = "Err"
  /\ Len(contacts) > 0

\* C3: no contact held in the store has a non-empty errors map.
C3_NoStoredErrors ==
  \A i \in 1..Len(contacts) : DOMAIN contacts[i].value.errors = {}

\* C3 witness: a contact carrying errors from an earlier rejected save,
\* its email by now valid and free, was offered to a store that holds
\* contacts.
C3_Witness ==
  /\ IsSave
  /\ DOMAIN SaveArg.errors # {}
  /\ NonEmptyEmail(SaveArg)
  /\ ~EmailTaken(ret.before, SaveArg)
  /\ Len(contacts) > 0

\* C4: a successful save of a contact without an id stores it under
\* (maximum id of the store) + 1, under 2 when the store is empty; a
\* successful save of a contact with an id stores it under that id,
\* overwriting the entry; every other entry stays as it was.
C4_IdAssignment ==
  (IsSave /\ ret.value = Ok) =>
    LET before == Keys(ret.before)
        fresh == IF before = {} THEN 2
                 ELSE (CHOOSE k \in before : \A j \in before : j <= k) + 1
        id == IF SaveArg.id = None THEN fresh ELSE Unwrap(SaveArg.id)
    IN  /\ Keys(contacts) = before \cup {id}
        /\ Len(contacts) = Cardinality(before \cup {id})
        /\ Entry(id, [SaveArg EXCEPT !.id = Some(id)]) \in EntrySet(contacts)
        /\ \A e \in EntrySet(ret.before) : e.key # id => e \in EntrySet(contacts)

\* C4 witness: the first contact saved into an empty store.
C4_Witness ==
  /\ IsSave
  /\ ret.value = Ok
  /\ SaveArg.id = None
  /\ ret.before = <<>>
  /\ Keys(contacts) = {2}

\* C5: save(c) of a contact with id i, empty errors and a non-empty email
\* succeeds exactly when no stored contact of another id has that email;
\* the stored contact of id i itself does not count.
C5_SelfMatchExcluded ==
  (IsSave /\ SaveArg.id # None /\ DOMAIN SaveArg.errors = {}
          /\ NonEmptyEmail(SaveArg)) =>
    (ret.value = Ok <=> ~EmailTaken(ret.before, SaveArg))

\* C5 witness: a stored contact was saved again under its own id with its
\* email as stored, and the save succeeded.
C5_Witness ==
  /\ IsSave
  /\ ret.value = Ok
  /\ SaveArg.id # None
  /\ \E e \in EntrySet(ret.before) :
        Some(e.key) = SaveArg.id /\ e.value.email = SaveArg.email

\* The key and the five persisted fields of every entry.
Fields(m) ==
  {<<e.key, e.value.id, e.value.first, e.value.last, e.value.phone,
     e.value.email>> : e \in EntrySet(m)}

\* C6: a store loaded from the backing file holds exactly the contacts of
\* the in-memory store, as many and with the same id, first, last, phone
\* and email.
C6_RoundTrip ==
  /\ file # NoFile =>
        \A m \in from_path(file) :
          Len(m) = Len(contacts) /\ Fields(m) = Fields(contacts)
  /\ ret.op = "load" =>
        Len(contacts) = Len(ret.before) /\ Fields(contacts) = Fields(ret.before)

\* C6 witness: a store of two contacts, one with an empty first name, was
\* loaded from its file.
C6_Witness ==
  /\ ret.op = "load"
  /\ Len(contacts) = 2
  /\ \E c \in Stored(contacts) : c.first = Some(<<>>)

\* C7: with no mutation between the calls, list(p) returns
\* min(10, max(0, N - 10 (p - 1))) contacts, distinct pages share no
\* contact, and the pages 1..ceil(N / 10) hold every stored contact once.
C7_Pagination ==
  ret.op = "list" =>
    LET N == Len(contacts)
        pages == ret.value
        last == (N + 9) \div 10
    IN  /\ \A p \in DOMAIN pages :
              /\ Len(pages[p]) = Min(10, Max(0, N - 10 * (p - 1)))
              /\ Cardinality(Elems(pages[p])) = Len(pages[p])
        /\ \A p, q \in DOMAIN pages :
              p # q => Elems(pages[p]) \cap Elems(pages[q]) = {}
        /\ (1..last) \subseteq DOMAIN pages =>
              UNION {Elems(pages[p]) : p \in 1..last} = Stored(contacts)

\* C7 witness: pages 1 and 2 of a store of 15 contacts were listed, 10 and
\* 5 contacts.
C7_Witness ==
  /\ ret.op = "list"
  /\ Len(contacts) = 15
  /\ {1, 2} \subseteq DOMAIN ret.value
  /\ Len(ret.value[1]) = 10
  /\ Len(ret.value[2]) = 5

\* q is a substring of a present field of c.
Matches(c, q) ==
  \E f \in {c.first, c.last, c.phone, c.email} : IsSome(f) /\ Occurs(q, Unwrap(f))

\* C8: search(q) returns exactly the stored contacts of which q is a
\* case-sensitive substring of a present first, last, phone or email, each
\* once and all of them, and leaves the store unchanged.
C8_SearchResult ==
  ret.op = "search" =>
    LET q == Unwrap(ret.arg)
        hits == {c \in Stored(ret.before) : Matches(c, q)}
    IN  /\ Elems(ret.value) = hits
        /\ Len(ret.value) = Cardinality(hits)
        /\ contacts = ret.before

\* C8 witness: a non-empty query matched one stored contact through its
\* phone alone and did not match another.
C8_Witness ==
  /\ ret.op = "search"
  /\ Unwrap(ret.arg) # <<>>
  /\ Len(ret.value) < Len(contacts)
  /\ \E c \in Elems(ret.value) :
        /\ IsSome(c.phone) /\ Occurs(Unwrap(ret.arg), Unwrap(c.phone))
        /\ ~Occurs(Unwrap(ret.arg), Unwrap(c.email))

\* C9: search("") returns all contacts of the store.
C9_EmptyQueryReturnsAll ==
  (ret.op = "search" /\ Unwrap(ret.arg) = <<>>) =>
    /\ Elems(ret.value) = Stored(contacts)
    /\ Len(ret.value) = Len(contacts)

\* C9 witness: the empty query was asked of a store of two contacts.
C9_Witness ==
  /\ ret.op = "search"
  /\ Unwrap(ret.arg) = <<>>
  /\ Len(contacts) = 2
  /\ Len(ret.value) = 2

\* C10: find(i) returns a contact exactly when i is a key of the store,
\* and then the contact stored under i, whose id is i; otherwise it returns
\* None, never a default contact; the store is unchanged.
C10_Find ==
  ret.op = "find" =>
    LET id == Unwrap(ret.arg)
    IN  /\ IsSome(ret.value) <=> id \in Keys(ret.before)
        /\ IsSome(ret.value) =>
              /\ Unwrap(ret.value).id = Some(id)
              /\ Entry(id, Unwrap(ret.value)) \in EntrySet(ret.before)
        /\ ret.value # Some(ContactDefault)
        /\ contacts = ret.before

\* C10 witness: find of id 2 after its contact was deleted (id 3 is only
\* handed out while 2 is stored) returned None.
C10_Witness ==
  /\ ret.op = "find"
  /\ Unwrap(ret.arg) = 2
  /\ ret.value = None
  /\ Keys(contacts) = {3}

\* C11: delete(c) of a contact whose id is not a key of the store reports
\* no error and leaves the store as it was, in size and contents; delete of
\* a stored id removes that entry and no other; deleting the same contact
\* again leaves the store as the first delete left it.
C11_DeleteNoOp ==
  (ret.op = "delete" /\ SaveArg.id # None) =>
    LET id == Unwrap(SaveArg.id)
    IN  /\ ret.value = Ok
        /\ id \notin Keys(ret.before) =>
              Len(contacts) = Len(ret.before) /\ contacts = ret.before
        /\ id \in Keys(ret.before) =>
              /\ Len(contacts) = Len(ret.before) - 1
              /\ EntrySet(contacts) = {e \in EntrySet(ret.before) : e.key # id}
        /\ delete(contacts, SaveArg).contacts = contacts

\* C11 witness: delete of an id that is not stored, on a store that holds
\* contacts.
C11_Witness ==
  /\ ret.op = "delete"
  /\ SaveArg.id # None
  /\ Unwrap(SaveArg.id) \notin Keys(ret.before)
  /\ ret.value = Ok
  /\ Len(contacts) > 0

\* C12: a contact that failed validation with "Email Required" and whose
\* email was then set to a non-empty (and free) value validates, with an
\* empty error map, and is saved.
C12_ValidateResets ==
  (IsSave /\ SaveArg.errors = [k \in {"email"} |-> "Email Required"]
          /\ NonEmptyEmail(SaveArg) /\ ~EmailTaken(ret.before, SaveArg)) =>
    ret.value = Ok

\* C16: all(0) is not page 1: the offset (page - 1) * 10 underflows, so the
\* call panics (overflow checks) or skips past every contact (wrapping) and
\* returns nothing; on a store that is not empty it never returns the
\* contacts of the first page.
C16_PageZeroUnderflows ==
  (ret.op = "all" /\ ret.arg = Some(0)) =>
    /\ ret.value.panicked \/ ret.value.contacts = <<>>
    /\ Len(contacts) > 0 =>
         ret.value.panicked \/ ret.value.contacts # all(contacts, 1)

C16_Witness ==
  /\ ret.op = "all"
  /\ ret.arg = Some(0)
  /\ ~ret.value.panicked
  /\ ret.value.contacts = <<>>
  /\ Len(contacts) > PAGE_SIZE

\* all on a usize page agrees with all for the pages that do not overflow.
AllUsizeAgrees ==
  (ret.op = "all" /\ ret.arg # Some(0)) =>
    ~ret.value.panicked /\ ret.value.contacts = all(contacts, Unwrap(ret.arg))

\* ------------------------------------------------------------------ claims on concurrent requests

\* The program points inside save and delete.
InSaveOrDelete ==
  {"validate", "validate_read", "max_id", "max_id_read", "insert",
   "insert_write", "remove", "remove_write", "create", "save_db", "write"}

\* The program points at which a task asks for the lock.
AtLockRequest ==
  {"query", "find", "validate", "max_id", "insert", "remove", "save_db"}

Holds(p) == p \in lock.readers \cup lock.writer

\* C13: under every interleaving of concurrent saves and deletes from an
\* empty store, no two stored contacts with different ids have the same
\* email.
C13_UniqueEmails ==
  \A i, j \in 1..Len(contacts) :
    contacts[i].key # contacts[j].key =>
      contacts[i].value.email # contacts[j].value.email

\* C14: a save of a contact without id is assigned an id that no stored
\* contact holds at the moment of its insert, so it overwrites no contact.
C14_FreshIdAtInsert ==
  \A p \in Tasks :
    (tasks[p].pc = "insert_write" /\ tasks[p].handler = "post_contacts_new") =>
      Unwrap(tasks[p].c.id) \notin Keys(contacts)

\* C15: whenever no save or delete is in progress, the backing file holds
\* exactly the contacts of the store (and does not exist only while
\* nothing has been stored or deleted).
C15_FileIsStore ==
  (\A p \in Tasks : tasks[p].pc \notin InSaveOrDelete) =>
    IF file = NoFile THEN contacts = <<>> ELSE file = save_db(contacts)

C15_Witness ==
  /\ \A p \in Tasks : /\ tasks[p].pc = "done"
                       /\ tasks[p].handler = "post_contacts_new"
  /\ Started = MaxRequests
  /\ Len(contacts) > 1
  /\ file = save_db(contacts)

\* C17: in contact_view, contacts_edit_get, contacts_email_get,
\* contacts_edit_post and contacts_delete, a find of an id that is not in
\* the store ends the request in a panic, and neither that step nor
\* anything the panicked task does afterwards for the request changes
\* the store or the file.
C17_AbsentIdPanics ==
  [][\A p \in Tasks :
       LET t == tasks[p]
       IN  /\ (t.pc = "find_read" /\ t.id \notin Keys(contacts)
                                   /\ tasks'[p] # t) =>
                 /\ tasks'[p].pc = "panicked"
                 /\ contacts' = contacts
                 /\ file' = file
           /\ (t.pc = "panicked" /\ tasks'[p] # t) =>
                 /\ tasks'[p].n = t.n + 1
                 /\ contacts' = contacts
                 /\ file' = file]_vars

C17_Witness ==
  /\ tasks["t1"].pc = "panicked"
  /\ tasks["t1"].handler = "contacts_edit_post"
  /\ tasks["t2"].pc = "panicked"
  /\ tasks["t2"].handler = "contacts_delete"
  /\ Len(contacts) > 0

\* C18: in every state reached by any sequence or interleaving of saves
\* and deletes from an empty store, every entry under key k is a contact
\* whose id is k and whose email is present and not empty.
C18_EntriesWellFormed ==
  \A i \in 1..Len(contacts) :
    /\ contacts[i].value.id = Some(contacts[i].key)
    /\ NonEmptyEmail(contacts[i].value)

C18_Witness ==
  /\ Len(contacts) > 1
  /\ \E p \in Tasks : /\ tasks[p].handler = "contacts_edit_post"
                       /\ tasks[p].pc = "done"

\* No task asks for the lock, or has ended its request, while it holds a
\* guard, and no task holds a read and a write guard together.
NoGuardAtLockRequest ==
  \A p \in Tasks :
    /\ tasks[p].pc \in AtLockRequest \cup Quiet \cup {"create"} => ~Holds(p)
    /\ ~(p \in lock.readers /\ p \in lock.writer)

\* C19: no operation asks for the store lock while it holds a guard on
\* it; hence, with a fair lock and runtime, every request that has
\* started eventually ends.
C19_NoDeadlock ==
  /\ []NoGuardAtLockRequest
  /\ \A p \in Tasks : (tasks[p].pc \notin Quiet) ~> (tasks[p].pc \in Quiet)

C19_Witness ==
  /\ lock.writer = {"t1"}
  /\ tasks["t1"].pc = "insert_write"
  /\ tasks["t2"].pc = "save_db"

\* C20: an edit request never re-creates a deleted contact: once a delete
\* request for its id has completed between its find and its save, no
\* step of the edit request puts the id back into the store.
C20_EditNeverRecreates ==
  [][\A p \in Tasks :
       LET t == tasks[p]
       IN  (t.handler = "contacts_edit_post" /\ t.raced /\ tasks'[p] # t
              /\ t.id \notin Keys(contacts)) =>
             t.id \notin Keys(contacts')]_vars

====
